---- MODULE Spec2Model ----
(***************************************************************************)
(* Model of the NL-to-SQL backend service (src/Backend/main.py): the       *)
(* process-wide Configuration (DATABASE_DETAILS, GPT_SETTINGS), the        *)
(* persisted config file, the connection registry DB_CONNECTIONS, and the  *)
(* four request handlers, run by a single-threaded event loop; and of the  *)
(* chat page of the Streamlit front end (src/frontend/main.py), which      *)
(* keeps the conversation in st.session_state.messages.                    *)
(***************************************************************************)
EXTENDS Integers, Sequences, FiniteSets, TLC

\* ------------------------------------------------------------------ bounds
MaxRequests == 3      \* requests accepted in one run of the service
MaxInFlight == 2      \* requests that can wait for the event loop at the same time
MaxLen == 5           \* longest generator text the extraction is applied to

\* ------------------------------------------------------ program constants
MAX_CHAT_HISTORY == 20

\* ------------------------------------------------------------- input data
EmptyDict == << >>    \* the Python dict {}

CredsA == [host |-> "h1", port |-> "1433", user |-> "sa", password |-> "p1"]
CredsB == [host |-> "h2", port |-> "1433", user |-> "app", password |-> "p2"]
GptOk == [gpt_api_key |-> "k1", temperature |-> "0.0", model |-> "gemini"]
GptNoKey == [gpt_api_key |-> "", temperature |-> "0.0", model |-> "gemini"]

\* Bodies of POST /save-config-details that pass the Settings validation.
Payloads ==
    { [database |-> CredsA, gpt |-> GptOk],
      [database |-> CredsB, gpt |-> GptOk],
      [database |-> CredsB, gpt |-> GptNoKey] }

\* Database names a client sends.
Databases == {"db1", "db2"}

\* Pieces of generator text: each stands for the literal string it holds.
LABEL == "SQL Query:"
FENCE == "[fence]"      \* three backquotes
SQLTAG == "sql"
NL == "\n"
EXAMPLE == "Example Data:"
WORD == "SELECT 1"
Tokens == {LABEL, FENCE, SQLTAG, NL, EXAMPLE, WORD}

\* ---------------------------------------------------------- pure helpers
IsSpace(c) == c = NL

RECURSIVE LStrip(_)
LStrip(s) == IF s # << >> /\ IsSpace(Head(s)) THEN LStrip(Tail(s)) ELSE s

RECURSIVE RStrip(_)
RStrip(s) ==
    IF s # << >> /\ IsSpace(s[Len(s)]) THEN RStrip(SubSeq(s, 1, Len(s) - 1)) ELSE s

\* str.strip()
Strip(s) == RStrip(LStrip(s))

\* d.get(k, ""): used where the model has to name a value even when absent.
Get(d, k) == IF k \in DOMAIN d THEN d[k] ELSE ""

RECURSIVE FirstMissing(_, _)
FirstMissing(d, keys) ==
    IF keys = << >> THEN ""
    ELSE IF Head(keys) \notin DOMAIN d THEN Head(keys)
    ELSE FirstMissing(d, Tail(keys))

\* The KeyError a handler raises when it subscripts DATABASE_DETAILS with
\* the given keys in this order: the first absent key, "" when all are present.
MissingKeyDefaulted(d, keys) == ""
MissingKey(d, keys) == FirstMissing(d, keys)

\* The f-string connection URL (user, password, host, port, database).
ConnectionString(d, database) ==
    << Get(d, "user"), Get(d, "password"), Get(d, "host"), Get(d, "port"), database >>

\* Registry keys: create_db_connection uses the database name alone,
\* list_databases "host:port", get_engine "host:port/database".
NameKeyShared(d, database) == << "default" >>
NameKey(d, database) == << database >>
ServerKey(d) == << Get(d, "host"), Get(d, "port") >>
EngineKey(d, database) == << Get(d, "host"), Get(d, "port"), database >>

\* The normalized (host, port, database) key of the design.
NormalizedKey(d, database) == << Get(d, "host"), Get(d, "port"), database >>

NoHandle == [id |-> 0, kind |-> "none", uri |-> << >>]
Handle(n, kind, uri) == [id |-> n, kind |-> kind, uri |-> uri]

\* The config file: absent, or present with the JSON documents it holds
\* (none while truncated, one after a complete dump).
NoFile == [exists |-> FALSE, content |-> << >>]
Document(database, gpt) == [database |-> database, gpt |-> gpt]
\* open(CONFIG_FILE_PATH, "w") truncates; json.dump then writes one document.
WriteFileAppend(old, doc) == [exists |-> TRUE, content |-> Append(old.content, doc)]
WriteFile(old, doc) == [exists |-> TRUE, content |-> << doc >>]
Truncated == [exists |-> TRUE, content |-> << >>]

\* ------------------------------------------------- statement extraction
Min(S) == CHOOSE x \in S : \A y \in S : x <= y
Max(S) == CHOOSE x \in S : \A y \in S : x >= y

NoMatch == [found |-> FALSE, group1 |-> << >>]
Match(t, p, e) == [found |-> TRUE, group1 |-> SubSeq(t, p, e - 1)]

\* Greedy \s* from position s: the positions it can stop at (the engine
\* tries the farthest first and gives characters back one at a time).
SpaceStops(t, s) == { p \in s..(Len(t) + 1) : \A m \in s..(p - 1) : IsSpace(t[m]) }

\* \s*``` matches at position e.
FenceAfterSpaces(t, e) ==
    \E q \in e..Len(t) : t[q] = FENCE /\ \A m \in e..(q - 1) : IsSpace(t[m])

\* Lazy (.*?) from p, then \s*```: the ends of group 1 that succeed (the
\* engine takes the nearest).
StrictEnds(t, p) == { e \in p..(Len(t) + 1) : FenceAfterSpaces(t, e) }
StrictGroupStarts(t, s) == { p \in SpaceStops(t, s) : StrictEnds(t, p) # {} }

\* ```sql at position j.
FenceAt(t, j) == j < Len(t) /\ t[j] = FENCE /\ t[j + 1] = SQLTAG

\* Lazy .*? after the label at i: the fences the rest can match from.
StrictFences(t, i) ==
    { j \in (i + 1)..Len(t) : FenceAt(t, j) /\ StrictGroupStarts(t, j + 2) # {} }
StrictStarts(t) == { i \in 1..Len(t) : t[i] = LABEL /\ StrictFences(t, i) # {} }

\* re.search(r"SQL Query:.*?```sql\s*(.*?)\s*```", text, re.DOTALL)
StrictSearch(t) ==
    IF StrictStarts(t) = {} THEN NoMatch
    ELSE LET i == Min(StrictStarts(t))
             j == Min(StrictFences(t, i))
             p == Max(StrictGroupStarts(t, j + 2))
             e == Min(StrictEnds(t, p))
         IN  Match(t, p, e)

\* (?=Example Data:|$) at position e; without re.MULTILINE $ matches at the
\* end of the text and before a newline that ends it.
AtExampleOrEnd(t, e) ==
    IF e = Len(t) + 1 THEN TRUE
    ELSE IF t[e] = EXAMPLE THEN TRUE
    ELSE e = Len(t) /\ t[e] = NL

LooseEnds(t, p) == { e \in p..(Len(t) + 1) : AtExampleOrEnd(t, e) }
LooseGroupStarts(t, s) == { p \in SpaceStops(t, s) : LooseEnds(t, p) # {} }
LooseStarts(t) == { i \in 1..Len(t) : t[i] = LABEL /\ LooseGroupStarts(t, i + 1) # {} }

\* re.search(r"SQL Query:\s*(.*?)(?=Example Data:|$)", text, re.DOTALL)
LooseSearch(t) ==
    IF LooseStarts(t) = {} THEN NoMatch
    ELSE LET i == Min(LooseStarts(t))
             p == Max(LooseGroupStarts(t, i + 1))
             e == Min(LooseEnds(t, p))
         IN  Match(t, p, e)

\* The two searches in the handler's order: the fenced pattern, and the
\* looser one only when the first found nothing.
SqlMatchLooseFirst(t) == IF LooseSearch(t).found THEN LooseSearch(t) ELSE StrictSearch(t)
SqlMatch(t) == IF StrictSearch(t).found THEN StrictSearch(t) ELSE LooseSearch(t)

\* Generator outputs the service model draws from: no output, a fenced
\* statement, an unfenced statement, a label with nothing under it.
SampleTexts ==
    { << >>,
      << WORD, NL, LABEL, NL, FENCE, SQLTAG, NL, WORD, NL, FENCE, NL, EXAMPLE, WORD >>,
      << LABEL, WORD, NL, EXAMPLE, WORD >>,
      << LABEL, NL, EXAMPLE >> }

\* Every text of at most MaxLen pieces.
Texts == UNION { [1..n -> Tokens] : n \in 0..MaxLen }

\* ------------------------------------------------------------------ state
VARIABLES
    DATABASE_DETAILS,   \* the global dict of database credentials
    GPT_SETTINGS,       \* the global dict of LLM settings
    DB_CONNECTIONS,     \* the registry: key -> handle
    configFile,         \* config/config.json
    pending,            \* requests accepted and not yet started: request -> how many
    suspended,          \* handlers that gave the event loop back at an await, in order
    cur,                \* the handler that holds the event loop, and its response
    nextId,             \* identity of the next handle object created
    accepted,           \* requests accepted so far
    opened,             \* history: handles create_db_connection opened, per database name
    resolved,           \* history: normalized key -> id of the handle first returned for it
    raced,              \* history: names two first-time requests were pending for together
    lastSave,           \* history: the latest completed save request, if any
    openFailed,         \* history: database names an open has failed for
    messages,           \* st.session_state.messages of the chat page
    handled             \* history: the latest user input handled and what it appended

vars == << DATABASE_DETAILS, GPT_SETTINGS, DB_CONNECTIONS, configFile, pending, suspended,
           cur, nextId, accepted, opened, resolved, raced, lastSave, openFailed,
           messages, handled >>

\* The requests a client can send: the operation and its body or query.
Requests ==
    { [op |-> "ask", args |-> [database |-> d]] : d \in Databases }
    \cup { [op |-> "save", args |-> p] : p \in Payloads }
    \cup { [op |-> "list_databases", args |-> EmptyDict] }
    \cup { [op |-> "list_tables", args |-> [database |-> d]] : d \in Databases \cup {""} }

IdleReq ==
    [ op |-> "none", args |-> EmptyDict, pc |-> "idle", db |-> NoHandle,
      response_text |-> << >>, sql_query |-> << >>, result |-> << >>,
      status |-> 0, detail |-> << >>, steps |-> << >>, failedAt |-> "",
      nopen |-> 0, key |-> << >>, fresh |-> FALSE, cfgEmpty |-> FALSE,
      prevSave |-> << >> ]

\* No user input has been handled by the chat page yet.
NotHandled == [outcome |-> "none", appended |-> << >>]

\* load_config(): the globals stay {} when the file is absent.
LoadConfig(file, section) ==
    IF file.exists /\ file.content # << >> THEN file.content[1][section] ELSE EmptyDict

StartFiles == {NoFile} \cup { WriteFile(NoFile, Document(p.database, p.gpt)) : p \in Payloads }

Init ==
    /\ configFile \in StartFiles
    /\ DATABASE_DETAILS = LoadConfig(configFile, "database")
    /\ GPT_SETTINGS = LoadConfig(configFile, "gpt")
    /\ DB_CONNECTIONS = << >>
    /\ pending = [q \in Requests |-> 0]
    /\ suspended = << >>
    /\ cur = IdleReq
    /\ nextId = 1
    /\ accepted = 0
    /\ opened = [d \in Databases |-> 0]
    /\ resolved = << >>
    /\ raced = {}
    /\ lastSave = << >>
    /\ openFailed = {}
    /\ messages = << >>
    /\ handled = NotHandled

\* ------------------------------------------------------------- event loop
\* The points at which a handler gives the event loop back before it is
\* done: every handler is an `async def` without a single await.
AwaitBeforeOpen == {"open"}
AwaitPoints == {}

\* Where a handler goes after the given step raised: every except clause
\* re-raises, so the request ends.
AfterFailureRetry(step) == IF step = "execute" THEN "generate" ELSE "done"
AfterFailure(step) == "done"

EntryPoint(op) ==
    CASE op = "ask" -> "resolve"
      [] op = "save" -> "save"
      [] op = "list_databases" -> "list_databases"
      [] OTHER -> "list_tables"

RECURSIVE Sum(_, _)
Sum(f, S) == IF S = {} THEN 0 ELSE LET x == CHOOSE y \in S : TRUE IN f[x] + Sum(f, S \ {x})

Waiting == Sum(pending, Requests) + Len(suspended)

\* A request arrives and waits for the event loop.
Arrive(q) ==
    /\ accepted < MaxRequests
    /\ Waiting < MaxInFlight
    /\ pending' = [pending EXCEPT ![q] = @ + 1]
    /\ accepted' = accepted + 1
    /\ UNCHANGED << DATABASE_DETAILS, GPT_SETTINGS, DB_CONNECTIONS, configFile, suspended,
                    cur, nextId, opened, resolved, raced, lastSave,
                    openFailed, messages, handled >>

\* GET /list-tables/ without the required query parameter `database: str`:
\* the framework answers 422 and the handler is never called.
ListTablesMissingParam ==
    /\ accepted < MaxRequests
    /\ cur.pc = "idle"
    /\ cur' = [IdleReq EXCEPT !.op = "list_tables", !.pc = "done", !.status = 422,
                              !.detail = << "Field required" >>,
                              !.cfgEmpty = (DATABASE_DETAILS = EmptyDict)]
    /\ accepted' = accepted + 1
    /\ UNCHANGED << DATABASE_DETAILS, GPT_SETTINGS, DB_CONNECTIONS, configFile, pending,
                    suspended, nextId, opened, resolved, raced, lastSave,
                    openFailed, messages, handled >>

\* The handler as it starts for request q.
Started(q) == [IdleReq EXCEPT !.op = q.op, !.args = q.args, !.pc = EntryPoint(q.op)]

Range(q) == { q[i] : i \in DOMAIN q }

\* q without its first c.
RECURSIVE Without(_, _)
Without(q, c) ==
    IF q = << >> THEN q
    ELSE IF Head(q) = c THEN Tail(q)
    ELSE << Head(q) >> \o Without(Tail(q), c)

Ready == { Started(q) : q \in { x \in Requests : pending[x] > 0 } } \cup Range(suspended)

AsRequest(c) == [op |-> c.op, args |-> c.args]

\* Request c starts while another first-time request for its database waits.
Races(c) ==
    /\ c.op = "ask"
    /\ c \notin Range(suspended)
    /\ NameKey(DATABASE_DETAILS, c.args.database) \notin DOMAIN DB_CONNECTIONS
    /\ pending[AsRequest(c)] > 1

\* The event loop runs a handler that is ready: a new one from its entry,
\* a suspended one from where it awaited.
Schedule(c) ==
    /\ cur.pc = "idle"
    /\ c \in Ready
    /\ cur' = c
    /\ pending' = IF c \in Range(suspended) THEN pending
                  ELSE [pending EXCEPT ![AsRequest(c)] = @ - 1]
    /\ suspended' = Without(suspended, c)
    /\ raced' = IF Races(c) THEN raced \cup {c.args.database} ELSE raced
    /\ UNCHANGED << DATABASE_DETAILS, GPT_SETTINGS, DB_CONNECTIONS, configFile,
                    nextId, accepted, opened, resolved, lastSave,
                    openFailed, messages, handled >>

\* The response has been sent.
Deliver ==
    /\ cur.pc = "done"
    /\ cur' = IdleReq
    /\ UNCHANGED << DATABASE_DETAILS, GPT_SETTINGS, DB_CONNECTIONS, configFile, pending,
                    suspended, nextId, accepted, opened, resolved, raced, lastSave,
                    openFailed, messages, handled >>

At(pc) == cur.pc = pc

\* The running handler has done `step` and is at `pc`, with the given
\* fields changed; at an await it leaves the event loop to the others.
Goto(step, pc, changes) ==
    LET c == [f \in DOMAIN IdleReq |->
                 IF f = "pc" THEN pc
                 ELSE IF f = "steps" THEN Append(cur.steps, step)
                 ELSE IF f \in DOMAIN changes THEN changes[f]
                 ELSE cur[f]]
    IN  /\ cur' = IF pc \in AwaitPoints THEN IdleReq ELSE c
        /\ suspended' = IF pc \in AwaitPoints THEN Append(suspended, c) ELSE suspended

Raise(step, detail, changes) ==
    Goto(step, AfterFailure(step),
         [f \in DOMAIN changes \cup {"status", "detail", "failedAt", "cfgEmpty"} |->
            IF f = "status" THEN 500
            ELSE IF f = "detail" THEN detail
            ELSE IF f = "failedAt" THEN step
            ELSE IF f = "cfgEmpty" THEN DATABASE_DETAILS = EmptyDict
            ELSE changes[f]])

Return(step, changes) ==
    Goto(step, "done",
         [f \in DOMAIN changes \cup {"status", "cfgEmpty"} |->
            IF f = "status" THEN 200
            ELSE IF f = "cfgEmpty" THEN DATABASE_DETAILS = EmptyDict
            ELSE changes[f]])

\* ------------------------------------------------ create_db_connection
\* The registry after `registry[key] = handle`.
Cache(registry, key, handle) ==
    [k \in DOMAIN registry \cup {key} |-> IF k = key THEN handle ELSE registry[k]]

\* The history of first returns per normalized key.
Noted(nk, handle) ==
    IF nk \in DOMAIN resolved THEN resolved
    ELSE [k \in DOMAIN resolved \cup {nk} |-> IF k = nk THEN handle.id ELSE resolved[k]]

CredentialKeys == << "user", "password", "host", "port" >>

\* `if database in DB_CONNECTIONS: return DB_CONNECTIONS[database]`
CacheHit ==
    LET d == cur.args.database
        key == NameKey(DATABASE_DETAILS, d)
        nk == NormalizedKey(DATABASE_DETAILS, d)
    IN  /\ At("resolve")
        /\ key \in DOMAIN DB_CONNECTIONS
        /\ Goto("resolve", "setup_llm",
                [db |-> DB_CONNECTIONS[key], key |-> nk, fresh |-> nk \notin DOMAIN resolved])
        /\ resolved' = Noted(nk, DB_CONNECTIONS[key])
        /\ UNCHANGED << DATABASE_DETAILS, GPT_SETTINGS, DB_CONNECTIONS, configFile, pending,
                    nextId, accepted, opened, raced, lastSave,
                    openFailed, messages, handled >>

CacheMiss ==
    /\ At("resolve")
    /\ NameKey(DATABASE_DETAILS, cur.args.database) \notin DOMAIN DB_CONNECTIONS
    /\ Goto("resolve", "open", << >>)
    /\ UNCHANGED << DATABASE_DETAILS, GPT_SETTINGS, DB_CONNECTIONS, configFile, pending,
                    nextId, accepted, opened, resolved, raced, lastSave,
                    openFailed, messages, handled >>

\* Building the connection string from an empty DATABASE_DETAILS raises
\* KeyError, which only the handler's outer except catches.
OpenKeyError ==
    /\ At("open")
    /\ MissingKey(DATABASE_DETAILS, CredentialKeys) # ""
    /\ Raise("open", << "Error processing the request", "KeyError",
                        MissingKey(DATABASE_DETAILS, CredentialKeys) >>, << >>)
    /\ openFailed' = openFailed \cup {cur.args.database}
    /\ UNCHANGED << DATABASE_DETAILS, GPT_SETTINGS, DB_CONNECTIONS, configFile, pending,
                    nextId, accepted, opened, resolved, raced, lastSave,
                    messages, handled >>

\* SQLDatabase.from_uri succeeds: the handle is cached and returned.
OpenOk ==
    LET d == cur.args.database
        key == NameKey(DATABASE_DETAILS, d)
        nk == NormalizedKey(DATABASE_DETAILS, d)
        h == Handle(nextId, "SQLDatabase", ConnectionString(DATABASE_DETAILS, d))
    IN  /\ At("open")
        /\ MissingKey(DATABASE_DETAILS, CredentialKeys) = ""
        /\ DB_CONNECTIONS' = Cache(DB_CONNECTIONS, key, h)
        /\ nextId' = nextId + 1
        /\ opened' = [opened EXCEPT ![d] = @ + 1]
        /\ resolved' = Noted(nk, h)
        /\ Goto("open", "setup_llm",
                [db |-> h, nopen |-> 1, key |-> nk, fresh |-> nk \notin DOMAIN resolved])
        /\ UNCHANGED << DATABASE_DETAILS, GPT_SETTINGS, configFile, pending, accepted, raced,
                    lastSave,
                    openFailed, messages, handled >>

\* The registry after SQLDatabase.from_uri raised: the assignment
\* `DB_CONNECTIONS[database] = db` that follows it is not reached.
CacheBroken(registry, key) == Cache(registry, key, NoHandle)
AfterFailedOpen(registry, key) == registry

\* SQLDatabase.from_uri raises SQLAlchemyError: nothing is cached.
OpenFail ==
    /\ At("open")
    /\ MissingKey(DATABASE_DETAILS, CredentialKeys) = ""
    /\ DB_CONNECTIONS' = AfterFailedOpen(DB_CONNECTIONS,
                                         NameKey(DATABASE_DETAILS, cur.args.database))
    /\ Raise("open", << "Error processing the request", "Database connection error" >>, << >>)
    /\ openFailed' = openFailed \cup {cur.args.database}
    /\ UNCHANGED << DATABASE_DETAILS, GPT_SETTINGS, configFile, pending,
                    nextId, accepted, opened, resolved, raced, lastSave,
                    messages, handled >>

\* ---------------------------------------------------------- setup_llm
\* What setup_llm can raise with the given settings; the last is the
\* client's constructor rejecting them.
LLMErrors(g) ==
    IF g = EmptyDict THEN {"GPT settings not configured."}
    ELSE IF Get(g, "gpt_api_key") = "" THEN {"Google API key is not set in configuration."}
    ELSE {"ChatGoogleGenerativeAI error"}

SetupLLMOk ==
    /\ At("setup_llm")
    /\ GPT_SETTINGS # EmptyDict
    /\ Get(GPT_SETTINGS, "gpt_api_key") # ""
    /\ Goto("setup_llm", "agent", << >>)
    /\ UNCHANGED << DATABASE_DETAILS, GPT_SETTINGS, DB_CONNECTIONS, configFile, pending,
                    nextId, accepted, opened, resolved, raced, lastSave,
                    openFailed, messages, handled >>

SetupLLMFail ==
    /\ At("setup_llm")
    /\ \E msg \in LLMErrors(GPT_SETTINGS) :
          Raise("setup_llm",
                << "Error processing the request", "Error initializing Google LLM", msg >>,
                << >>)
    /\ UNCHANGED << DATABASE_DETAILS, GPT_SETTINGS, DB_CONNECTIONS, configFile, pending,
                    nextId, accepted, opened, resolved, raced, lastSave,
                    openFailed, messages, handled >>

\* ------------------------------ convert_nl_to_sql_and_execute_with_validation
InitAgentOk ==
    /\ At("agent")
    /\ Goto("agent", "generate", << >>)
    /\ UNCHANGED << DATABASE_DETAILS, GPT_SETTINGS, DB_CONNECTIONS, configFile, pending,
                    nextId, accepted, opened, resolved, raced, lastSave,
                    openFailed, messages, handled >>

InitAgentFail ==
    /\ At("agent")
    /\ Raise("agent", << "Error processing the request", "Failed to initialize agent" >>, << >>)
    /\ UNCHANGED << DATABASE_DETAILS, GPT_SETTINGS, DB_CONNECTIONS, configFile, pending,
                    nextId, accepted, opened, resolved, raced, lastSave,
                    openFailed, messages, handled >>

\* agent_executor.invoke returns; response.get("output", "") is the text.
GenerateOk(text) ==
    /\ At("generate")
    /\ Goto("generate", "extract", [response_text |-> text])
    /\ UNCHANGED << DATABASE_DETAILS, GPT_SETTINGS, DB_CONNECTIONS, configFile, pending,
                    nextId, accepted, opened, resolved, raced, lastSave,
                    openFailed, messages, handled >>

GenerateFail ==
    /\ At("generate")
    /\ Raise("generate",
             << "Error processing the request", "Execution error", "agent error" >>, << >>)
    /\ UNCHANGED << DATABASE_DETAILS, GPT_SETTINGS, DB_CONNECTIONS, configFile, pending,
                    nextId, accepted, opened, resolved, raced, lastSave,
                    openFailed, messages, handled >>

ExtractOk ==
    /\ At("extract")
    /\ SqlMatch(cur.response_text).found
    /\ Goto("extract", "execute", [sql_query |-> Strip(SqlMatch(cur.response_text).group1)])
    /\ UNCHANGED << DATABASE_DETAILS, GPT_SETTINGS, DB_CONNECTIONS, configFile, pending,
                    nextId, accepted, opened, resolved, raced, lastSave,
                    openFailed, messages, handled >>

ExtractFail ==
    /\ At("extract")
    /\ ~SqlMatch(cur.response_text).found
    /\ Raise("extract",
             << "Error processing the request", "Execution error",
                "Could not extract SQL query from response" >>, << >>)
    /\ UNCHANGED << DATABASE_DETAILS, GPT_SETTINGS, DB_CONNECTIONS, configFile, pending,
                    nextId, accepted, opened, resolved, raced, lastSave,
                    openFailed, messages, handled >>

\* db.run(sql_query): the rows the statement gives on that handle.
Rows(handle, statement) == << "rows", handle.id, statement >>

ExecuteOk ==
    /\ At("execute")
    /\ Return("execute", [result |-> Rows(cur.db, cur.sql_query)])
    /\ UNCHANGED << DATABASE_DETAILS, GPT_SETTINGS, DB_CONNECTIONS, configFile, pending,
                    nextId, accepted, opened, resolved, raced, lastSave,
                    openFailed, messages, handled >>

ExecuteFail ==
    /\ At("execute")
    /\ Raise("execute",
             << "Error processing the request", "Execution error", "database error" >>, << >>)
    /\ UNCHANGED << DATABASE_DETAILS, GPT_SETTINGS, DB_CONNECTIONS, configFile, pending,
                    nextId, accepted, opened, resolved, raced, lastSave,
                    openFailed, messages, handled >>

\* -------------------------------------------------- save_config_details
SaveRecord(payload, ok, file) ==
    << [ payload |-> payload, ok |-> ok,
         memory |-> Document(payload.database, payload.gpt), file |-> file ] >>

\* The globals are assigned first, then the file is written.
SaveOk ==
    LET p == cur.args
        file == WriteFile(configFile, Document(p.database, p.gpt))
    IN  /\ At("save")
        /\ DATABASE_DETAILS' = p.database
        /\ GPT_SETTINGS' = p.gpt
        /\ configFile' = file
        /\ lastSave' = SaveRecord(p, TRUE, file)
        /\ Return("save", [ result |-> << "Database and GPT details saved successfully!" >>,
                            prevSave |-> lastSave ])
        /\ UNCHANGED << DB_CONNECTIONS, pending, nextId, accepted, opened, resolved, raced,
                    openFailed, messages, handled >>

\* os.makedirs or open raises: the file is as it was.
SaveWriteFail ==
    LET p == cur.args
    IN  /\ At("save")
        /\ DATABASE_DETAILS' = p.database
        /\ GPT_SETTINGS' = p.gpt
        /\ lastSave' = SaveRecord(p, FALSE, configFile)
        /\ Raise("save", << "Error saving config details", "OSError" >>,
                 [prevSave |-> lastSave])
        /\ UNCHANGED << DB_CONNECTIONS, configFile, pending, nextId, accepted, opened,
                    resolved, raced,
                    openFailed, messages, handled >>

\* open truncated the file and json.dump raises while writing.
SavePartial ==
    LET p == cur.args
    IN  /\ At("save")
        /\ DATABASE_DETAILS' = p.database
        /\ GPT_SETTINGS' = p.gpt
        /\ configFile' = Truncated
        /\ lastSave' = SaveRecord(p, FALSE, Truncated)
        /\ Raise("save", << "Error saving config details", "OSError" >>,
                 [prevSave |-> lastSave])
        /\ UNCHANGED << DB_CONNECTIONS, pending, nextId, accepted, opened, resolved, raced,
                    openFailed, messages, handled >>

\* ------------------------------------------------------- list_databases
\* `if key not in DB_CONNECTIONS: DB_CONNECTIONS[key] = create_engine(...)`
WithEngine(registry, key, uri) ==
    IF key \in DOMAIN registry THEN registry
    ELSE Cache(registry, key, Handle(nextId, "Engine", uri))

Created(registry, key) == IF key \in DOMAIN registry THEN 0 ELSE 1

ListDatabasesNotConfigured ==
    /\ At("list_databases")
    /\ DATABASE_DETAILS = EmptyDict
    /\ Raise("list_databases", << "Database details not configured." >>, << >>)
    /\ UNCHANGED << DATABASE_DETAILS, GPT_SETTINGS, DB_CONNECTIONS, configFile, pending,
                    nextId, accepted, opened, resolved, raced, lastSave,
                    openFailed, messages, handled >>

ListDatabasesOk ==
    LET key == ServerKey(DATABASE_DETAILS)
    IN  /\ At("list_databases")
        /\ DATABASE_DETAILS # EmptyDict
        /\ DB_CONNECTIONS' =
              WithEngine(DB_CONNECTIONS, key, ConnectionString(DATABASE_DETAILS, "master"))
        /\ nextId' = nextId + Created(DB_CONNECTIONS, key)
        /\ Return("list_databases",
                  [result |-> << "databases" >>, nopen |-> Created(DB_CONNECTIONS, key)])
        /\ UNCHANGED << DATABASE_DETAILS, GPT_SETTINGS, configFile, pending, accepted,
                    opened, resolved, raced, lastSave,
                    openFailed, messages, handled >>

\* engine.connect or the query raises SQLAlchemyError; the engine stays cached.
ListDatabasesFail ==
    LET key == ServerKey(DATABASE_DETAILS)
    IN  /\ At("list_databases")
        /\ DATABASE_DETAILS # EmptyDict
        /\ DB_CONNECTIONS' =
              WithEngine(DB_CONNECTIONS, key, ConnectionString(DATABASE_DETAILS, "master"))
        /\ nextId' = nextId + Created(DB_CONNECTIONS, key)
        /\ Raise("list_databases", << "Error fetching databases", "SQLAlchemyError" >>,
                 [nopen |-> Created(DB_CONNECTIONS, key)])
        /\ UNCHANGED << DATABASE_DETAILS, GPT_SETTINGS, configFile, pending, accepted,
                    opened, resolved, raced, lastSave,
                    openFailed, messages, handled >>

\* ---------------------------------------------- list_tables, get_engine
\* HTTPException(400) is raised inside the try, so `except Exception`
\* catches it and the client gets a 500 that quotes it.
ListTablesNoName ==
    /\ At("list_tables")
    /\ cur.args.database = ""
    /\ Goto("list_tables", "done",
            [ status |-> 500, failedAt |-> "list_tables",
              detail |-> << "Error processing the request", "400",
                            "Database name is required." >>,
              cfgEmpty |-> (DATABASE_DETAILS = EmptyDict) ])
    /\ UNCHANGED << DATABASE_DETAILS, GPT_SETTINGS, DB_CONNECTIONS, configFile, pending,
                    nextId, accepted, opened, resolved, raced, lastSave,
                    openFailed, messages, handled >>

EngineKeys == << "host", "port" >>

ListTablesKeyError ==
    /\ At("list_tables")
    /\ cur.args.database # ""
    /\ MissingKey(DATABASE_DETAILS, EngineKeys) # ""
    /\ Raise("list_tables", << "Error processing the request", "KeyError",
                               MissingKey(DATABASE_DETAILS, EngineKeys) >>, << >>)
    /\ UNCHANGED << DATABASE_DETAILS, GPT_SETTINGS, DB_CONNECTIONS, configFile, pending,
                    nextId, accepted, opened, resolved, raced, lastSave,
                    openFailed, messages, handled >>

ListTablesOk ==
    LET d == cur.args.database
        key == EngineKey(DATABASE_DETAILS, d)
    IN  /\ At("list_tables")
        /\ d # ""
        /\ MissingKey(DATABASE_DETAILS, EngineKeys) = ""
        /\ DB_CONNECTIONS' =
              WithEngine(DB_CONNECTIONS, key, ConnectionString(DATABASE_DETAILS, d))
        /\ nextId' = nextId + Created(DB_CONNECTIONS, key)
        /\ Return("list_tables",
                  [result |-> << "tables" >>, nopen |-> Created(DB_CONNECTIONS, key)])
        /\ UNCHANGED << DATABASE_DETAILS, GPT_SETTINGS, configFile, pending, accepted,
                    opened, resolved, raced, lastSave,
                    openFailed, messages, handled >>

ListTablesFail ==
    LET d == cur.args.database
        key == EngineKey(DATABASE_DETAILS, d)
    IN  /\ At("list_tables")
        /\ d # ""
        /\ MissingKey(DATABASE_DETAILS, EngineKeys) = ""
        /\ DB_CONNECTIONS' =
              WithEngine(DB_CONNECTIONS, key, ConnectionString(DATABASE_DETAILS, d))
        /\ nextId' = nextId + Created(DB_CONNECTIONS, key)
        /\ Raise("list_tables", << "Error fetching tables", "SQLAlchemyError" >>,
                 [nopen |-> Created(DB_CONNECTIONS, key)])
        /\ UNCHANGED << DATABASE_DETAILS, GPT_SETTINGS, configFile, pending, accepted,
                    opened, resolved, raced, lastSave,
                    openFailed, messages, handled >>

\* ---------------------------------------------------------- the service
Next ==
    \/ \E q \in Requests : Arrive(q)
    \/ ListTablesMissingParam
    \/ \E c \in Ready : Schedule(c)
    \/ CacheHit
    \/ CacheMiss
    \/ OpenKeyError
    \/ OpenOk
    \/ OpenFail
    \/ SetupLLMOk
    \/ SetupLLMFail
    \/ InitAgentOk
    \/ InitAgentFail
    \/ \E text \in SampleTexts : GenerateOk(text)
    \/ GenerateFail
    \/ ExtractOk
    \/ ExtractFail
    \/ ExecuteOk
    \/ ExecuteFail
    \/ SaveOk
    \/ SaveWriteFail
    \/ SavePartial
    \/ ListDatabasesNotConfigured
    \/ ListDatabasesOk
    \/ ListDatabasesFail
    \/ ListTablesNoName
    \/ ListTablesKeyError
    \/ ListTablesOk
    \/ ListTablesFail
    \/ Deliver

Spec == Init /\ [][Next]_vars

\* ------------------------------------------- extraction on its own
\* A request whose generator has just returned `text`: the extraction and
\* the execution steps of the handler are applied to every text of at most
\* MaxLen pieces.
ExtractInit ==
    LET d == "db1"
        h == Handle(1, "SQLDatabase", ConnectionString(CredsA, d))
        nk == NormalizedKey(CredsA, d)
    IN  /\ configFile = WriteFile(NoFile, Document(CredsA, GptOk))
        /\ DATABASE_DETAILS = CredsA
        /\ GPT_SETTINGS = GptOk
        /\ DB_CONNECTIONS = Cache(<< >>, NameKey(CredsA, d), h)
        /\ pending = [q \in Requests |-> 0]
        /\ suspended = << >>
        /\ \E text \in Texts :
              cur = [IdleReq EXCEPT !.op = "ask", !.args = [database |-> d],
                                    !.pc = "extract", !.db = h, !.response_text = text,
                                    !.steps = << "resolve", "open", "setup_llm", "agent",
                                                 "generate" >>,
                                    !.nopen = 1, !.key = nk, !.fresh = TRUE]
        /\ nextId = 2
        /\ accepted = 1
        /\ opened = [x \in Databases |-> IF x = d THEN 1 ELSE 0]
        /\ resolved = [k \in {nk} |-> 1]
        /\ raced = {}
        /\ lastSave = << >>
        /\ openFailed = {}
        /\ messages = << >>
        /\ handled = NotHandled

ExtractNext == ExtractOk \/ ExtractFail \/ ExecuteOk \/ ExecuteFail

ExtractSpec == ExtractInit /\ [][ExtractNext]_vars

\* ---------------------------------------------------------- the chat page
\* What the user types and what comes back from the service.
UserInputs == {"question"}
Replies == {"answer"}
ErrorStatuses == {500}
RequestErrors == {"ConnectionError"}

Message(role, content) == [role |-> role, content |-> content]

\* The f-string of the chat page: the reply with the query and its result.
FormattedResponse(reply) == << "Bot Response:", reply >>

\* q[-MAX_CHAT_HISTORY:]
Trim(q) ==
    IF Len(q) <= MAX_CHAT_HISTORY THEN q
    ELSE SubSeq(q, Len(q) - MAX_CHAT_HISTORY + 1, Len(q))

\* The variables of the service, which the chat page does not touch.
service == << DATABASE_DETAILS, GPT_SETTINGS, DB_CONNECTIONS, configFile, pending, suspended,
              cur, nextId, accepted, opened, resolved, raced, lastSave, openFailed >>

\* One run of the page for a user input, with the messages it appends in
\* the `try` block and the bot_response it is left with after it.
HandleInput(u, outcome, inTry, bot_response) ==
    LET afterUser == Append(messages, Message("user", u))
        afterTry == IF inTry = << >> THEN afterUser ELSE Trim(afterUser \o inTry)
        last == Message("assistant", bot_response)
    IN  /\ messages' = Trim(Append(afterTry, last))
        /\ handled' = [outcome |-> outcome,
                       appended |-> << Message("user", u) >> \o inTry \o << last >>]
        /\ UNCHANGED service

\* The service answers 200: the formatted response is appended in the
\* `if` branch, and bot_response after the try block.
Answered(u, reply) ==
    /\ reply \in Replies
    /\ HandleInput(u, "200", << Message("assistant", FormattedResponse(reply)) >>, reply)

\* The service answers another status: the error is shown, not kept, and
\* bot_response is still "".
Refused(u, status) ==
    /\ status # 200
    /\ HandleInput(u, "non-200", << >>, "")

\* requests.post or response.json raises.
Failed(u, e) ==
    /\ e \in RequestErrors
    /\ HandleInput(u, "exception", << >>, << "Error:", e >>)

ChatInit == Init /\ configFile = NoFile

ChatNext ==
    \/ \E u \in UserInputs, reply \in Replies : Answered(u, reply)
    \/ \E u \in UserInputs, status \in ErrorStatuses : Refused(u, status)
    \/ \E u \in UserInputs, e \in RequestErrors : Failed(u, e)

ChatSpec == ChatInit /\ [][ChatNext]_vars

\* ================================================================ claims
Count(q, x) == Cardinality({ i \in DOMAIN q : q[i] = x })

\* The running ask request has its handle: create_db_connection returned.
Resolved == cur.op = "ask" /\ cur.db # NoHandle

\* C1: every resolve that returns opened exactly one connection when its
\* (host, port, database) key had not been seen before, and otherwise
\* opened none and returned the handle first returned for that key.
C1_OneOpenPerNormalizedKey ==
    Resolved =>
        IF cur.fresh THEN cur.nopen = 1
        ELSE cur.nopen = 0 /\ cur.db.id = resolved[cur.key]

\* C2: after a successful save, a resolve returns a handle that was opened
\* with the saved credentials, also for a name resolved before the save.
C2_ResolveUsesSavedCredentials ==
    (Resolved /\ lastSave # << >> /\ lastSave[1].ok) =>
        cur.db.uri = ConnectionString(lastSave[1].payload.database, cur.args.database)

\* C3: over all interleavings of concurrent requests, create_db_connection
\* opens at most one handle for a database name, and the handle a request
\* holds is the one the registry keeps for that name.
C3_AtMostOneHandlePerName ==
    /\ \A d \in Databases : opened[d] <= 1
    /\ Resolved => DB_CONNECTIONS[NameKey(DATABASE_DETAILS, cur.args.database)] = cur.db

\* Two requests for the same unseen name waited together, the first opened
\* the handle and the second is running with that same handle.
C3_Witness ==
    /\ Resolved
    /\ cur.args.database \in raced
    /\ cur.nopen = 0
    /\ opened[cur.args.database] = 1
    /\ accepted = 2

\* C4: list-tables without a database name answers 400 and creates no engine.
C4_NoNameIs400 ==
    (cur.pc = "done" /\ cur.op = "list_tables" /\ Get(cur.args, "database") = "") =>
        (cur.status = 400 /\ cur.nopen = 0)

ExtractionError ==
    << "Error processing the request", "Execution error",
       "Could not extract SQL query from response" >>

\* C5: a text without the label fails with the extraction error, and no
\* empty statement is ever passed to execution.
C5_NoEmptyStatementExecuted ==
    /\ (LABEL \notin Range(cur.response_text) /\ "extract" \in Range(cur.steps)) =>
          (cur.failedAt = "extract" /\ cur.detail = ExtractionError)
    /\ "execute" \in Range(cur.steps) => cur.sql_query # << >>

\* The fenced statement, read off the text without the matcher: the first
\* ```sql after the first label that has a closing fence, up to the first
\* fence after it.
HasFenced(t) ==
    \E i, j, k \in 1..Len(t) :
        t[i] = LABEL /\ i < j /\ t[j] = FENCE /\ FenceAt(t, j) /\ j + 2 <= k /\ t[k] = FENCE

Trimmed(q) ==
    LET inked == { i \in DOMAIN q : q[i] # NL }
    IN  IF inked = {} THEN << >> ELSE SubSeq(q, Min(inked), Max(inked))

FencedStatement(t) ==
    LET i == Min({ x \in 1..Len(t) : t[x] = LABEL })
        j == Min({ x \in (i + 1)..Len(t) :
                     FenceAt(t, x) /\ \E k \in (x + 2)..Len(t) : t[k] = FENCE })
        k == Min({ x \in (j + 2)..Len(t) : t[x] = FENCE })
    IN  Trimmed(SubSeq(t, j + 2, k - 1))

\* The unfenced statement: what follows the first label, up to the first
\* "Example Data:" after it or the end of the text.
UnfencedStatement(t) ==
    LET i == Min({ x \in 1..Len(t) : t[x] = LABEL })
        stops == { x \in (i + 1)..Len(t) : t[x] = EXAMPLE }
        e == IF stops = {} THEN Len(t) + 1 ELSE Min(stops)
    IN  Trimmed(SubSeq(t, i + 1, e - 1))

Extracted == "extract" \in Range(cur.steps) /\ cur.failedAt # "extract"

\* C6: when the text holds a fenced statement the extracted statement is
\* that one, trimmed; the unfenced reading is used only when there is none.
C6_StrictFirst ==
    Extracted =>
        cur.sql_query = IF HasFenced(cur.response_text)
                        THEN FencedStatement(cur.response_text)
                        ELSE UnfencedStatement(cur.response_text)

\* Both patterns match, with different captures, and the fenced one was taken.
C6_Witness ==
    /\ Extracted
    /\ HasFenced(cur.response_text)
    /\ FencedStatement(cur.response_text) # UnfencedStatement(cur.response_text)
    /\ FencedStatement(cur.response_text) # << >>
    /\ cur.sql_query = FencedStatement(cur.response_text)

\* C7: one request invokes generation and execution at most once each, and
\* a failed step is its last: the request is over, with status 500.
C7_NoRetry ==
    /\ Count(cur.steps, "generate") <= 1
    /\ Count(cur.steps, "execute") <= 1
    /\ cur.failedAt # "" =>
          (cur.pc = "done" /\ cur.status = 500 /\ cur.steps[Len(cur.steps)] = cur.failedAt)
    /\ (cur.pc = "done" /\ cur.status = 200 /\ cur.op = "ask") =>
          cur.steps = << "resolve", "setup_llm", "agent", "generate", "extract", "execute" >>
             \/ cur.steps = << "resolve", "open", "setup_llm", "agent", "generate",
                               "extract", "execute" >>

\* Execution failed after one generation and the request ended with a 500.
C7_Witness ==
    /\ cur.op = "ask"
    /\ cur.failedAt = "execute"
    /\ cur.pc = "done"
    /\ cur.status = 500
    /\ Count(cur.steps, "generate") = 1

\* The responses of a request that found DATABASE_DETAILS empty.
ConfigMissing ==
    { << "Database details not configured." >> }
    \cup { << "Error processing the request", "KeyError", k >> : k \in {"user", "host"} }

\* A completed request for an operation that reads DATABASE_DETAILS.
Dependent ==
    /\ cur.pc = "done"
    /\ \/ cur.op \in {"ask", "list_databases"}
       \/ cur.op = "list_tables" /\ Get(cur.args, "database") # ""

C9_MemoryEqualsStore ==
    lastSave # << >> =>
        configFile = WriteFile(NoFile, Document(DATABASE_DETAILS, GPT_SETTINGS))

\* A save request completed right after another with the same payload.
SavedAgain ==
    /\ cur.pc = "done"
    /\ cur.op = "save"
    /\ cur.prevSave # << >>
    /\ cur.prevSave[1].payload = cur.args

RECURSIVE Only(_, _)
Only(q, S) ==
    IF q = << >> THEN << >>
    ELSE IF Head(q) \in S THEN << Head(q) >> \o Only(Tail(q), S)
    ELSE Only(Tail(q), S)

\* The ask request that holds the event loop has been answered with 200.
AskSucceeded == cur.op = "ask" /\ cur.pc = "done" /\ cur.status = 200

\* C11: a successful ask request returns the statement read off its own
\* generator output and the rows of that statement on the handle the
\* registry holds for its own database name, a handle opened for that
\* name; it resolved, generated, extracted and executed in that order,
\* each once, whatever other requests were accepted around it.
C11_OwnStatementOwnHandle ==
    AskSucceeded =>
        /\ cur.sql_query = IF HasFenced(cur.response_text)
                           THEN FencedStatement(cur.response_text)
                           ELSE UnfencedStatement(cur.response_text)
        /\ cur.result = Rows(cur.db, cur.sql_query)
        /\ NameKey(DATABASE_DETAILS, cur.args.database) \in DOMAIN DB_CONNECTIONS
        /\ cur.db = DB_CONNECTIONS[NameKey(DATABASE_DETAILS, cur.args.database)]
        /\ cur.db.kind = "SQLDatabase"
        /\ cur.db.uri[Len(cur.db.uri)] = cur.args.database
        /\ Only(cur.steps, {"resolve", "generate", "extract", "execute"})
              = << "resolve", "generate", "extract", "execute" >>

\* A successful ask for one name while the registry also holds the handle
\* opened for the other name and a third request waits for the event loop.
C11_Witness ==
    /\ AskSucceeded
    /\ cur.sql_query # << >>
    /\ cur.db.id = 2
    /\ \A d \in Databases : NameKey(DATABASE_DETAILS, d) \in DOMAIN DB_CONNECTIONS
    /\ Waiting > 0

\* C12: a failed open caches nothing. The request whose open failed leaves
\* no registry entry under its database name; while no open has succeeded
\* for a name an open has failed for, the registry holds no entry for it
\* and every resolve for it goes on to open a connection again; a handle
\* returned for such a name is one a later open created, never a broken
\* cached one.
C12_FailedOpenCachesNothing ==
    /\ (cur.op = "ask" /\ cur.failedAt = "open") =>
          NameKey(DATABASE_DETAILS, cur.args.database) \notin DOMAIN DB_CONNECTIONS
    /\ \A d \in openFailed :
          /\ opened[d] = 0 => NameKey(DATABASE_DETAILS, d) \notin DOMAIN DB_CONNECTIONS
          /\ (cur.op = "ask" /\ cur.args.database = d /\ opened[d] = 0
                /\ "resolve" \in Range(cur.steps)) =>
                (cur.pc = "open" \/ "open" \in Range(cur.steps))
          /\ (Resolved /\ cur.args.database = d) =>
                (cur.db.kind = "SQLDatabase" /\ cur.db.id \in 1..(nextId - 1))

\* After an open failed for a name and a save went through, a resolve for
\* that name has opened a connection and goes on with the new handle.
C12_Witness ==
    /\ Resolved
    /\ cur.args.database \in openFailed
    /\ lastSave # << >>
    /\ lastSave[1].ok
    /\ cur.nopen = 1
    /\ cur.pc = "setup_llm"
    /\ cur.db = DB_CONNECTIONS[NameKey(DATABASE_DETAILS, cur.args.database)]

\* The messages of q with the given role.
WithRole(q, role) == { i \in DOMAIN q : q[i].role = role }

\* C13: handling one user input appends exactly one user message and
\* exactly one assistant message, whatever the outcome of the request, and
\* leaves at most MAX_CHAT_HISTORY messages in the list.
C13_OneUserOneAssistant ==
    handled.outcome # "none" =>
        /\ Cardinality(WithRole(handled.appended, "user")) = 1
        /\ Cardinality(WithRole(handled.appended, "assistant")) = 1
        /\ Len(messages) <= MAX_CHAT_HISTORY

====
